---- MODULE Spec2Model ----
(***************************************************************************)
(* Model of site_searcher.py: the fetch -> query -> build -> serialize     *)
(* pipeline of main, and the functions it is made of.                      *)
(*                                                                         *)
(* Python values are modelled as follows.  A str is a TLA+ string, None is *)
(* the sentinel None, a dict is a function whose DOMAIN is its key set, a  *)
(* list is a sequence.  Library calls whose result depends on data outside *)
(* the program (the network, the browser, the match of a query against a   *)
(* page) are inputs chosen with \E.                                        *)
(***************************************************************************)
EXTENDS Integers, Sequences, FiniteSets, TLC

VARIABLES
  args,                \* argparse namespace of main (all None outside main)
  SELENIUM_AVAILABLE,  \* module flag set by the optional import
  pc,                  \* position of the run
  exitCode,            \* process exit status, NoExit while running
  html,                \* page source held by main, None before the fetch
  driver,              \* browser session of fetch_with_selenium
  called,              \* functions of the module invoked so far
  call,                \* arguments of the last parse_with_* call
  items,               \* list of dicts returned by the last parse_with_* call
  file,                \* state of the destination path on disk
  saveCall,            \* arguments of the last save_output call
  stdout,              \* report printed by save_output
  stderr               \* failure message printed by main

vars == <<args, SELENIUM_AVAILABLE, pc, exitCode, html, driver, called, call,
          items, file, saveCall, stdout, stderr>>

----------------------------------------------------------------------------
(* Bounds *)

MaxNodes == 2   \* longest match sequence a query returns
MaxRecs  == 2   \* longest list handed to save_output directly

----------------------------------------------------------------------------
(* Python values *)

None == "<None>"

Truthy(v) == v # None /\ v # ""

EmptyDict == [k \in {} |-> None]

\* d[k] = v
SetItem(d, k, v) == [x \in (DOMAIN d) \cup {k} |-> IF x = k THEN v ELSE d[x]]

\* d.get(k, default)
DictGet(d, k, default) == IF k \in DOMAIN d THEN d[k] ELSE default

RECURSIVE SeqsUpTo(_, _)
SeqsUpTo(S, n) ==
  IF n = 0 THEN {<<>>}
  ELSE LET shorter == SeqsUpTo(S, n - 1)
       IN shorter \cup {Append(s, x) : s \in {t \in shorter : Len(t) = n - 1}, x \in S}

Perms(S) == {p \in [1..Cardinality(S) -> S] : \A i, j \in 1..Cardinality(S) : p[i] = p[j] => i = j}

----------------------------------------------------------------------------
(* urllib.parse.urljoin, on the URL strings of the model.                  *)
(* A parsed URL is [scheme, netloc, path, fragment] with the path kept as  *)
(* path.split('/'); params and query are empty for every string used.      *)

BaseUrl == "https://x.com/c/"

UrlStrings == {"", "/a/b", "d", BaseUrl, "https://x.com/a/b", "https://x.com/c/d"}

urlparse(url) ==
  CASE url = ""                  -> [scheme |-> "", netloc |-> "", path |-> <<"">>, fragment |-> ""]
    [] url = "/a/b"              -> [scheme |-> "", netloc |-> "", path |-> <<"", "a", "b">>, fragment |-> ""]
    [] url = "d"                 -> [scheme |-> "", netloc |-> "", path |-> <<"d">>, fragment |-> ""]
    [] url = "https://x.com/c/"  -> [scheme |-> "https", netloc |-> "x.com", path |-> <<"", "c", "">>, fragment |-> ""]
    [] url = "https://x.com/a/b" -> [scheme |-> "https", netloc |-> "x.com", path |-> <<"", "a", "b">>, fragment |-> ""]
    [] url = "https://x.com/c/d" -> [scheme |-> "https", netloc |-> "x.com", path |-> <<"", "c", "d">>, fragment |-> ""]

urlunparse(parts) == CHOOSE s \in UrlStrings : urlparse(s) = parts

uses_relative == {"", "ftp", "http", "https", "file"}
uses_netloc   == {"", "ftp", "http", "https", "file"}

\* segments[1:-1] = filter(None, segments[1:-1])
RECURSIVE FilterEmpty(_)
FilterEmpty(s) ==
  IF s = <<>> THEN <<>>
  ELSE IF Head(s) = "" THEN FilterEmpty(Tail(s)) ELSE <<Head(s)>> \o FilterEmpty(Tail(s))

FilterMiddle(segs) ==
  IF Len(segs) < 3 THEN segs
  ELSE <<segs[1]>> \o FilterEmpty(SubSeq(segs, 2, Len(segs) - 1)) \o <<segs[Len(segs)]>>

\* the loop that removes "." and ".." segments
RECURSIVE ResolveDots(_, _)
ResolveDots(segs, resolved) ==
  IF segs = <<>> THEN resolved
  ELSE LET seg == Head(segs)
       IN IF seg = ".."
            THEN ResolveDots(Tail(segs),
                   IF resolved = <<>> THEN <<>> ELSE SubSeq(resolved, 1, Len(resolved) - 1))
          ELSE IF seg = "." THEN ResolveDots(Tail(segs), resolved)
          ELSE ResolveDots(Tail(segs), Append(resolved, seg))

urljoin(base, url) ==
  IF ~Truthy(base) THEN url
  ELSE IF ~Truthy(url) THEN base
  ELSE
    LET b      == urlparse(base)
        u      == urlparse(url)
        scheme == IF u.scheme = "" THEN b.scheme ELSE u.scheme
    IN IF scheme # b.scheme \/ scheme \notin uses_relative THEN url
       ELSE IF scheme \in uses_netloc /\ u.netloc # ""
         THEN urlunparse([scheme |-> scheme, netloc |-> u.netloc, path |-> u.path,
                          fragment |-> u.fragment])
       ELSE
         LET netloc == IF scheme \in uses_netloc THEN b.netloc ELSE u.netloc
         IN IF u.path = <<"">>
              THEN urlunparse([scheme |-> scheme, netloc |-> netloc, path |-> b.path,
                               fragment |-> u.fragment])
            ELSE
              LET base_parts == IF b.path[Len(b.path)] # ""
                                  THEN SubSeq(b.path, 1, Len(b.path) - 1) ELSE b.path
                  segments   == IF u.path[1] = "" /\ Len(u.path) > 1
                                  THEN u.path
                                  ELSE FilterMiddle(base_parts \o u.path)
                  dotless    == ResolveDots(segments, <<>>)
                  resolved   == IF segments[Len(segments)] \in {".", ".."}
                                  THEN Append(dotless, "") ELSE dotless
                  joined     == IF resolved = <<>> \/ resolved = <<"">>
                                  THEN <<"", "">> ELSE resolved
              IN urlunparse([scheme |-> scheme, netloc |-> netloc, path |-> joined,
                             fragment |-> u.fragment])

----------------------------------------------------------------------------
(* Matched nodes: what soup.select / doc.xpath hand to the loops.          *)

AttrNames == {"href", "id"}

AttrVals(name) == IF name = "href" THEN {"", "/a/b", "d"} ELSE {"/a/b"}

AttrMaps ==
  UNION {{f \in [D -> UrlStrings] : \A k \in D : f[k] \in AttrVals(k)} : D \in SUBSET AttrNames}

\* an element: tag name, attribute dict, raw descendant text
Elements == {[kind |-> "element", tag |-> "a", attrs |-> a, text |-> " t ", value |-> None] :
               a \in AttrMaps}

\* a string result of an XPath query (etree._ElementUnicodeResult or str)
StringResults == {[kind |-> "string", tag |-> None, attrs |-> EmptyDict, text |-> None, value |-> v] :
                    v \in {"s"}}

Nodes == Elements \cup StringResults

\* str.strip() on the text values of the model
Strip(t) == IF t = " t " THEN "t" ELSE t

\* str(el) / lxml_html.tostring(n): the markup of the element, as a token list
Serialize(el) == <<"<", el.tag, el.attrs, ">", el.text, "</", el.tag, ">">>

HtmlCap == 1000

\* s[:HtmlCap]
Truncate(s) == SubSeq(s, 1, IF Len(s) < HtmlCap THEN Len(s) ELSE HtmlCap)

\* el.get(attr)
GetAttr(el, attr) == DictGet(el.attrs, attr, None)

----------------------------------------------------------------------------
(* parse_with_selector *)

\* the attribute value stored in the record
AttrValue(el, base_url, attr) ==
  LET val == GetAttr(el, attr)
  IN IF Truthy(val) /\ Truthy(base_url) /\ attr \in {"href", "src"}
       THEN urljoin(base_url, val)
       ELSE val

\* `if attr:` block; the key is `attr if attr else "value"`
WithAttr(item, el, base_url, attr) ==
  IF Truthy(attr)
    THEN SetItem(item, IF Truthy(attr) THEN attr ELSE "value", AttrValue(el, base_url, attr))
    ELSE item

\* body of the for loop for one element
ElementItem(el, base_url, attr, text) ==
  LET item1 == IF text THEN SetItem(EmptyDict, "text", Strip(el.text)) ELSE EmptyDict
      item2 == WithAttr(item1, el, base_url, attr)
      item3 == SetItem(item2, "tag", el.tag)
  IN SetItem(item3, "html", Truncate(Serialize(el)))

RECURSIVE SelectorLoop(_, _, _, _, _)
SelectorLoop(elems, out, base_url, attr, text) ==
  IF elems = <<>> THEN out
  ELSE SelectorLoop(Tail(elems), Append(out, ElementItem(Head(elems), base_url, attr, text)),
                    base_url, attr, text)

RECURSIVE Reverse(_)
Reverse(seq) == IF seq = <<>> THEN <<>> ELSE Append(Reverse(Tail(seq)), Head(seq))

\* the loop written with out.insert(0, item)
parse_with_selector_Reversed(elems, base_url, attr, text) ==
  Reverse(SelectorLoop(elems, <<>>, base_url, attr, text))

\* elems is the result of soup.select(selector)
parse_with_selector(elems, base_url, attr, text) ==
  SelectorLoop(elems, <<>>, base_url, attr, text)

----------------------------------------------------------------------------
(* parse_with_xpath *)

\* the string branch without its `continue`: the tag line below is reached
XpathItem_TagOnString(n, base_url, attr, text) ==
  IF n.kind = "string"
    THEN SetItem(SetItem(EmptyDict, "text", n.value), "tag", n.tag)
    ELSE ElementItem(n, base_url, attr, text)

\* body of the for loop for one result of doc.xpath
XpathItem(n, base_url, attr, text) ==
  IF n.kind = "string"
    THEN SetItem(EmptyDict, "text", n.value)
    ELSE ElementItem(n, base_url, attr, text)

RECURSIVE XpathLoop(_, _, _, _, _)
XpathLoop(nodes, out, base_url, attr, text) ==
  IF nodes = <<>> THEN out
  ELSE XpathLoop(Tail(nodes), Append(out, XpathItem(Head(nodes), base_url, attr, text)),
                 base_url, attr, text)

\* nodes is the result of doc.xpath(xpath)
parse_with_xpath(nodes, base_url, attr, text) ==
  XpathLoop(nodes, <<>>, base_url, attr, text)

----------------------------------------------------------------------------
(* save_output *)

\* a destination path, split at its dots: <<"out", ".json">>
Paths == {<<"results", ".csv">>, <<"out", ".json">>, <<"json">>}

\* output_path.endswith(".json")
EndsWithJson(path) == Len(path) > 0 /\ path[Len(path)] = ".json"

NoFile == [exists |-> FALSE, format |-> None, header |-> <<>>, rows |-> <<>>]
OldFile == [exists |-> TRUE, format |-> "old", header |-> <<>>, rows |-> <<>>]

NoReport == [msg |-> None, n |-> 0]

\* json.dump of one value: None becomes null, a str a JSON string
JsonValue(v) == IF v = None THEN [t |-> "null", s |-> ""] ELSE [t |-> "string", s |-> v]

\* json.dump of one dict: exactly its keys
JsonObject(it) == [k \in DOMAIN it |-> JsonValue(it[k])]

\* the csv writer's rendering of one field: None is written as the empty string
CsvCell(v) == IF v = None THEN "" ELSE v

\* keys taken from the first dict only: keys = set(items[0].keys())
UnionKeys_FirstOnly(its) == DOMAIN its[1]

\* keys = set(); for it in items: keys.update(it.keys())
UnionKeys(its) == UNION {DOMAIN its[i] : i \in 1..Len(its)}

\* writer.writerow({k: it.get(k, "") for k in keys}), laid out in header order
CsvRow(it, hdr) == [j \in 1..Len(hdr) |-> CsvCell(DictGet(it, hdr[j], ""))]

\* the csv branch without its `if not items` return: a header-only file
save_output_NoEmptyCheck(its, output_path, before, hdr) ==
  IF EndsWithJson(output_path)
    THEN [file   |-> [exists |-> TRUE, format |-> "json", header |-> <<>>,
                      rows |-> [i \in 1..Len(its) |-> JsonObject(its[i])]],
          stdout |-> [msg |-> "Wrote", n |-> Len(its)]]
  ELSE [file   |-> [exists |-> TRUE, format |-> "csv", header |-> hdr,
                    rows |-> [i \in 1..Len(its) |-> CsvRow(its[i], hdr)]],
        stdout |-> [msg |-> "Wrote", n |-> Len(its)]]

\* hdr is list(keys): some order of the key set.  Returns the file and the report.
save_output(its, output_path, before, hdr) ==
  IF EndsWithJson(output_path)
    THEN [file   |-> [exists |-> TRUE, format |-> "json", header |-> <<>>,
                      rows |-> [i \in 1..Len(its) |-> JsonObject(its[i])]],
          stdout |-> [msg |-> "Wrote", n |-> Len(its)]]
  ELSE IF its = <<>>
    THEN [file |-> before, stdout |-> [msg |-> "No items to write.", n |-> 0]]
  ELSE [file   |-> [exists |-> TRUE, format |-> "csv", header |-> hdr,
                    rows |-> [i \in 1..Len(its) |-> CsvRow(its[i], hdr)]],
        stdout |-> [msg |-> "Wrote", n |-> Len(its)]]

\* the orders list(keys) can have
HeaderOrders(its, output_path) ==
  IF EndsWithJson(output_path) \/ its = <<>> THEN {<<>>} ELSE Perms(UnionKeys(its))

----------------------------------------------------------------------------
(* main: one run of the command line tool *)

Selectors == {"", "a"}
XPaths    == {"//a"}

\* the namespaces parse_args can return: --url is required, exactly one of
\* --selector / --xpath is given, --output defaults to results.csv
ArgSets ==
  {[url |-> BaseUrl, selector |-> q[1], xpath |-> q[2], attr |-> a, text |-> t,
    headless |-> h, output |-> o] :
     q \in ({<<sel, None>> : sel \in Selectors} \cup {<<None, xp>> : xp \in XPaths}),
     a \in {None, "href", "id"}, t \in BOOLEAN, h \in BOOLEAN,
     o \in {<<"results", ".csv">>, <<"out", ".json">>}}

NoArgs == [url |-> None, selector |-> None, xpath |-> None, attr |-> None, text |-> FALSE,
           headless |-> FALSE, output |-> <<>>]

NoCall == [fn |-> None, nodes |-> <<>>, base_url |-> None, attr |-> None, text |-> FALSE]

NoSave == [path |-> <<>>, before |-> NoFile, given |-> <<>>]

NoExit          == -1
SuccessExitCode == 0
UncaughtExitCode == 1
FetchExitCode   == 2
\* sys.exit(2) in both except blocks
ParseExitCode_SameAsFetch == FetchExitCode
ParseExitCode   == 3

Page == "<html>"

Init ==
  /\ args \in ArgSets
  /\ SELENIUM_AVAILABLE \in BOOLEAN
  /\ pc = "fetch"
  /\ exitCode = NoExit
  /\ html = None
  /\ driver = "none"
  /\ called = {}
  /\ call = NoCall
  /\ items = <<>>
  /\ file \in {NoFile, OldFile}
  /\ saveCall = NoSave
  /\ stdout = NoReport
  /\ stderr = None

\* sys.exit(code) in an except block of main
Exit(code, message) ==
  /\ pc' = "exited"
  /\ exitCode' = code
  /\ stderr' = message

\* html = fetch_static(url, ...) returns
FetchStaticOk ==
  /\ pc = "fetch" /\ ~args.headless
  /\ called' = called \cup {"fetch_static"}
  /\ html' = Page
  /\ pc' = "parse"
  /\ UNCHANGED <<args, SELENIUM_AVAILABLE, exitCode, driver, call, items, file, saveCall,
                 stdout, stderr>>

\* requests.get or raise_for_status raises
FetchStaticFail ==
  /\ pc = "fetch" /\ ~args.headless
  /\ called' = called \cup {"fetch_static"}
  /\ Exit(FetchExitCode, "Failed to fetch page:")
  /\ UNCHANGED <<args, SELENIUM_AVAILABLE, html, driver, call, items, file, saveCall, stdout>>

\* fetch_with_selenium raises RuntimeError: selenium not installed
FetchSeleniumUnavailable ==
  /\ pc = "fetch" /\ args.headless /\ ~SELENIUM_AVAILABLE
  /\ called' = called \cup {"fetch_with_selenium"}
  /\ Exit(FetchExitCode, "Failed to fetch page:")
  /\ UNCHANGED <<args, SELENIUM_AVAILABLE, html, driver, call, items, file, saveCall, stdout>>

\* ChromeDriverManager().install() or webdriver.Chrome(...) raises: no session exists
FetchSeleniumNoDriver ==
  /\ pc = "fetch" /\ args.headless /\ SELENIUM_AVAILABLE
  /\ called' = called \cup {"fetch_with_selenium"}
  /\ Exit(FetchExitCode, "Failed to fetch page:")
  /\ UNCHANGED <<args, SELENIUM_AVAILABLE, html, driver, call, items, file, saveCall, stdout>>

\* the state of the session when a statement after webdriver.Chrome(...) raises:
\* the exception leaves the function, driver.quit() is not reached
DriverAfterRaise == "open"

\* set_page_load_timeout, driver.get or driver.page_source raises
FetchSeleniumLoadFail ==
  /\ pc = "fetch" /\ args.headless /\ SELENIUM_AVAILABLE
  /\ called' = called \cup {"fetch_with_selenium"}
  /\ driver' = DriverAfterRaise
  /\ Exit(FetchExitCode, "Failed to fetch page:")
  /\ UNCHANGED <<args, SELENIUM_AVAILABLE, html, call, items, file, saveCall, stdout>>

\* the page loads: html = driver.page_source; driver.quit(); return html
FetchSeleniumOk ==
  /\ pc = "fetch" /\ args.headless /\ SELENIUM_AVAILABLE
  /\ called' = called \cup {"fetch_with_selenium"}
  /\ driver' = "quit"
  /\ html' = Page
  /\ pc' = "parse"
  /\ UNCHANGED <<args, SELENIUM_AVAILABLE, exitCode, call, items, file, saveCall, stdout, stderr>>

\* `if args.selector:` taken, parse_with_selector returns
ParseSelectorOk ==
  /\ pc = "parse" /\ Truthy(args.selector)
  /\ \E elems \in SeqsUpTo(Elements, MaxNodes) :
       /\ call' = [fn |-> "parse_with_selector", nodes |-> elems, base_url |-> args.url,
                   attr |-> args.attr, text |-> args.text]
       /\ items' = parse_with_selector(elems, args.url, args.attr, args.text)
  /\ called' = called \cup {"parse_with_selector"}
  /\ pc' = "save"
  /\ UNCHANGED <<args, SELENIUM_AVAILABLE, exitCode, html, driver, file, saveCall, stdout, stderr>>

\* the except block without its sys.exit: main goes on to save_output(items, ...)
ParseSelectorFail_NoExit ==
  /\ pc = "parse" /\ Truthy(args.selector)
  /\ called' = called \cup {"parse_with_selector"}
  /\ pc' = "save"
  /\ stderr' = "Failed to parse page:"
  /\ UNCHANGED <<args, SELENIUM_AVAILABLE, exitCode, html, driver, call, items, file, saveCall,
                 stdout>>

\* `if args.selector:` taken, BeautifulSoup(...) or soup.select raises
ParseSelectorFail ==
  /\ pc = "parse" /\ Truthy(args.selector)
  /\ called' = called \cup {"parse_with_selector"}
  /\ Exit(ParseExitCode, "Failed to parse page:")
  /\ UNCHANGED <<args, SELENIUM_AVAILABLE, html, driver, call, items, file, saveCall, stdout>>

\* else branch, parse_with_xpath returns; doc.xpath(None) never returns
ParseXpathOk ==
  /\ pc = "parse" /\ ~Truthy(args.selector) /\ args.xpath # None
  /\ \E nodes \in SeqsUpTo(Nodes, MaxNodes) :
       /\ call' = [fn |-> "parse_with_xpath", nodes |-> nodes, base_url |-> args.url,
                   attr |-> args.attr, text |-> args.text]
       /\ items' = parse_with_xpath(nodes, args.url, args.attr, args.text)
  /\ called' = called \cup {"parse_with_xpath"}
  /\ pc' = "save"
  /\ UNCHANGED <<args, SELENIUM_AVAILABLE, exitCode, html, driver, file, saveCall, stdout, stderr>>

\* else branch, fromstring or doc.xpath raises
ParseXpathFail ==
  /\ pc = "parse" /\ ~Truthy(args.selector)
  /\ called' = called \cup {"parse_with_xpath"}
  /\ Exit(ParseExitCode, "Failed to parse page:")
  /\ UNCHANGED <<args, SELENIUM_AVAILABLE, html, driver, call, items, file, saveCall, stdout>>

\* save_output(items, args.output) returns and main falls off its end
SaveOk ==
  /\ pc = "save"
  /\ \E hdr \in HeaderOrders(items, args.output) :
       LET r == save_output(items, args.output, file, hdr)
       IN /\ file' = r.file
          /\ stdout' = r.stdout
  /\ saveCall' = [path |-> args.output, before |-> file, given |-> items]
  /\ called' = called \cup {"save_output"}
  /\ pc' = "exited"
  /\ exitCode' = SuccessExitCode
  /\ UNCHANGED <<args, SELENIUM_AVAILABLE, html, driver, call, items, stderr>>

\* open(output_path, "w") raises OSError: nothing catches it, the interpreter
\* prints the traceback and exits with status 1
SaveOSError ==
  /\ pc = "save"
  /\ ~(~EndsWithJson(args.output) /\ items = <<>>)
  /\ saveCall' = [path |-> args.output, before |-> file, given |-> items]
  /\ called' = called \cup {"save_output"}
  /\ Exit(UncaughtExitCode, "Traceback")
  /\ UNCHANGED <<args, SELENIUM_AVAILABLE, html, driver, call, items, file, stdout>>

Next ==
  \/ FetchStaticOk
  \/ FetchStaticFail
  \/ FetchSeleniumUnavailable
  \/ FetchSeleniumNoDriver
  \/ FetchSeleniumLoadFail
  \/ FetchSeleniumOk
  \/ ParseSelectorOk
  \/ ParseSelectorFail
  \/ ParseXpathOk
  \/ ParseXpathFail
  \/ SaveOk
  \/ SaveOSError

Spec == Init /\ [][Next]_vars

----------------------------------------------------------------------------
(* The functions called directly, with any arguments *)

\* dicts save_output can be handed
Records ==
  UNION {[D -> {"v", "", None}] : D \in SUBSET {"text", "href"}}

InitCalls ==
  /\ args = NoArgs
  /\ SELENIUM_AVAILABLE \in BOOLEAN
  /\ pc = "idle"
  /\ exitCode = NoExit
  /\ html = None
  /\ driver = "none"
  /\ called = {}
  /\ call = NoCall
  /\ items = <<>>
  /\ file \in {NoFile, OldFile}
  /\ saveCall = NoSave
  /\ stdout = NoReport
  /\ stderr = None

CallParseSelector ==
  /\ pc = "idle"
  /\ \E elems \in SeqsUpTo(Elements, MaxNodes), base_url \in {None, "", BaseUrl},
        attr \in {None, "", "href", "id"}, text \in BOOLEAN :
       /\ call' = [fn |-> "parse_with_selector", nodes |-> elems, base_url |-> base_url,
                   attr |-> attr, text |-> text]
       /\ items' = parse_with_selector(elems, base_url, attr, text)
  /\ called' = called \cup {"parse_with_selector"}
  /\ pc' = "returned"
  /\ UNCHANGED <<args, SELENIUM_AVAILABLE, exitCode, html, driver, file, saveCall, stdout, stderr>>

CallParseXpath ==
  /\ pc = "idle"
  /\ \E nodes \in SeqsUpTo(Nodes, MaxNodes), base_url \in {None, "", BaseUrl},
        attr \in {None, "", "href", "id"}, text \in BOOLEAN :
       /\ call' = [fn |-> "parse_with_xpath", nodes |-> nodes, base_url |-> base_url,
                   attr |-> attr, text |-> text]
       /\ items' = parse_with_xpath(nodes, base_url, attr, text)
  /\ called' = called \cup {"parse_with_xpath"}
  /\ pc' = "returned"
  /\ UNCHANGED <<args, SELENIUM_AVAILABLE, exitCode, html, driver, file, saveCall, stdout, stderr>>

CallSaveOutput ==
  /\ pc = "idle"
  /\ \E its \in SeqsUpTo(Records, MaxRecs), path \in Paths :
       \E hdr \in HeaderOrders(its, path) :
         LET r == save_output(its, path, file, hdr)
         IN /\ file' = r.file
            /\ stdout' = r.stdout
            /\ saveCall' = [path |-> path, before |-> file, given |-> its]
            /\ items' = its
  /\ called' = called \cup {"save_output"}
  /\ pc' = "returned"
  /\ UNCHANGED <<args, SELENIUM_AVAILABLE, exitCode, html, driver, call, stderr>>

NextCalls ==
  \/ CallParseSelector
  \/ CallParseXpath
  \/ CallSaveOutput

SpecCalls == InitCalls /\ [][NextCalls]_vars

----------------------------------------------------------------------------
(* Claims *)

\* C1: for every matched element, when an attribute name A was requested and
\* the element has no attribute A, the built record has no key A.
C1_AbsentAttrOmitted ==
  (call.fn # None /\ Truthy(call.attr)) =>
    \A i \in 1..Len(call.nodes) :
      (call.nodes[i].kind = "element" /\ call.attr \notin DOMAIN call.nodes[i].attrs)
        => call.attr \notin DOMAIN items[i]

\* C2: save_output is called only from the save stage of a run whose fetch and
\* parse both returned; until it is called the destination file is untouched;
\* a run that failed at fetch or parse has ended and never called it.
C2_SaveOnlyAfterSuccess ==
  [][ /\ ("save_output" \in called' /\ "save_output" \notin called)
           => (pc = "save" /\ html # None /\ call.fn # None /\ exitCode = NoExit)
      /\ ("save_output" \notin called') => (file' = file /\ stdout' = NoReport)
      /\ (exitCode' \in {FetchExitCode, ParseExitCode})
           => (pc' = "exited" /\ "save_output" \notin called')
      /\ (pc = "exited") => (vars' = vars) ]_vars

C2_Witness ==
  /\ pc = "exited" /\ exitCode = ParseExitCode
  /\ html # None /\ file = OldFile /\ "save_output" \notin called

\* C3: once fetch_with_selenium has returned or raised, no browser session it
\* created is still open.
C3_DriverReleased ==
  (pc # "fetch" /\ "fetch_with_selenium" \in called) => driver # "open"

\* C4: a run that failed at fetch ends with a non-zero code, a run that failed
\* at parse ends with a different non-zero code, a run in which every stage
\* succeeded ends with zero.
C4_ExitCodes ==
  pc = "exited" =>
    /\ (html = None) => (exitCode = FetchExitCode /\ exitCode # 0)
    /\ (html # None /\ call.fn = None)
         => (exitCode = ParseExitCode /\ exitCode # 0 /\ exitCode # FetchExitCode)
    /\ (stdout # NoReport) => exitCode = 0
    /\ (exitCode = FetchExitCode) => html = None
    /\ (exitCode = ParseExitCode) => (html # None /\ call.fn = None)

C4_Witness ==
  /\ pc = "exited" /\ exitCode = ParseExitCode /\ html # None /\ call.fn = None

\* C5: save_output with an empty list: a .json destination is written as an
\* empty array and "Wrote 0 items" is reported; any other destination is left
\* as it was and "No items to write." is reported instead of "Wrote".
C5_EmptyBatch ==
  ("save_output" \in called /\ pc = "returned" /\ saveCall.given = <<>>) =>
    IF EndsWithJson(saveCall.path)
      THEN /\ file.exists /\ file.format = "json" /\ file.rows = <<>>
           /\ stdout = [msg |-> "Wrote", n |-> 0]
      ELSE /\ file = saveCall.before
           /\ stdout.msg = "No items to write." /\ stdout.msg # "Wrote" /\ stdout.n = 0

C5_Witness ==
  /\ "save_output" \in called /\ pc = "returned" /\ saveCall.given = <<>>
  /\ ~EndsWithJson(saveCall.path) /\ file = NoFile /\ stdout.msg = "No items to write."

\* C6: save_output with a non-empty list and a destination that is not .json:
\* the header lists each field name of the union of the records' keys exactly
\* once, there is one row per record, and a cell holds the record's value for
\* that column (None has the empty text in a csv file) or "" when the record
\* lacks the field.
C6_TabularUnion ==
  ("save_output" \in called /\ pc = "returned" /\ saveCall.given # <<>>
     /\ ~EndsWithJson(saveCall.path)) =>
    LET given == saveCall.given
        hdr   == file.header
    IN /\ file.exists /\ file.format = "csv"
       /\ {hdr[j] : j \in 1..Len(hdr)}
            = {k \in {"text", "href"} : \E i \in 1..Len(given) : k \in DOMAIN given[i]}
       /\ \A j1, j2 \in 1..Len(hdr) : hdr[j1] = hdr[j2] => j1 = j2
       /\ Len(file.rows) = Len(given)
       /\ \A i \in 1..Len(given) :
            /\ Len(file.rows[i]) = Len(hdr)
            /\ \A j \in 1..Len(hdr) :
                 file.rows[i][j] =
                   IF hdr[j] \in DOMAIN given[i]
                     THEN (IF given[i][hdr[j]] = None THEN "" ELSE given[i][hdr[j]])
                     ELSE ""

C6_Witness ==
  /\ "save_output" \in called /\ pc = "returned" /\ ~EndsWithJson(saveCall.path)
  /\ saveCall.given = <<[text |-> "v"], [text |-> "v", href |-> "v"]>>
  /\ file.format = "csv" /\ Len(file.header) = 2
  /\ \E j \in 1..2 : file.header[j] = "href" /\ file.rows[1][j] = "" /\ file.rows[2][j] = "v"

\* C7: every string result of the path query becomes a record whose key set is
\* exactly {text}, with text the string value, whatever the text flag, the
\* requested attribute and the base URL are.
C7_StringResult ==
  (call.fn = "parse_with_xpath") =>
    /\ Len(items) = Len(call.nodes)
    /\ \A i \in 1..Len(call.nodes) :
         call.nodes[i].kind = "string"
           => (DOMAIN items[i] = {"text"} /\ items[i]["text"] = call.nodes[i].value)

C7_Witness ==
  /\ call.fn = "parse_with_xpath" /\ call.text /\ call.attr = "href" /\ call.base_url = BaseUrl
  /\ \E i \in 1..Len(call.nodes) :
       call.nodes[i].kind = "string" /\ DOMAIN items[i] = {"text"}

\* C8: in a run that wrote its output, as many records are reported and written
\* as nodes were matched, and the i-th array element or data row is the record
\* built from the i-th matched node.
C8_OrderPreserved ==
  (pc = "exited" /\ exitCode = SuccessExitCode) =>
    LET nodes    == call.nodes
        built(n) == IF call.fn = "parse_with_selector"
                      THEN ElementItem(n, call.base_url, call.attr, call.text)
                      ELSE XpathItem(n, call.base_url, call.attr, call.text)
    IN /\ stdout.n = Len(nodes)
       /\ Len(items) = Len(nodes)
       /\ IF EndsWithJson(args.output)
            THEN /\ Len(file.rows) = Len(nodes)
                 /\ \A i \in 1..Len(nodes) : file.rows[i] = JsonObject(built(nodes[i]))
          ELSE IF nodes = <<>> THEN file = saveCall.before
          ELSE /\ Len(file.rows) = Len(nodes)
               /\ \A i \in 1..Len(nodes) : file.rows[i] = CsvRow(built(nodes[i]), file.header)

C8_Witness ==
  /\ pc = "exited" /\ exitCode = SuccessExitCode /\ call.fn = "parse_with_selector"
  /\ Len(call.nodes) = 2 /\ call.nodes[1] # call.nodes[2]
  /\ file.format = "csv" /\ Len(file.rows) = 2 /\ file.rows[1] # file.rows[2]

\* C9: a run given --selector (any string, the empty one included) never calls
\* parse_with_xpath and a run given --xpath never calls parse_with_selector; the
\* empty selector is handed to parse_with_selector and matches nothing.
C9_NoFallback ==
  /\ (args.selector # None) => "parse_with_xpath" \notin called
  /\ (args.xpath # None) => "parse_with_selector" \notin called
  /\ (args.selector = "" /\ html # None /\ pc \in {"save", "exited"})
       => (call.fn = "parse_with_selector" /\ call.nodes = <<>> /\ exitCode # ParseExitCode)

\* C10: for every matched element that has the requested attribute A with value
\* v, the record's field A is urljoin(base_url, v) when A is href or src and the
\* base URL is known, and v itself otherwise.
C10_AttrResolved ==
  (call.fn # None /\ Truthy(call.attr)) =>
    \A i \in 1..Len(call.nodes) :
      (call.nodes[i].kind = "element" /\ call.attr \in DOMAIN call.nodes[i].attrs) =>
        LET v == call.nodes[i].attrs[call.attr]
        IN /\ call.attr \in DOMAIN items[i]
           /\ items[i][call.attr] =
                IF call.attr \in {"href", "src"} /\ Truthy(call.base_url)
                  THEN urljoin(call.base_url, v)
                  ELSE v

====
